---- MODULE Spec2Model ----
(***************************************************************************)
(* A model of tensorflow/contrib/layers/python/layers/feature_column_ops.py *)
(* : the memoizing _Transformer, the two layer builders, the example parser *)
(* adapter, check_feature_columns and infer_real_valued_columns.            *)
(*                                                                          *)
(* The FeatureColumn classes (module feature_column, imported as fc) and    *)
(* the framework ops (concat, add_n, bias_add, parse_example) live outside  *)
(* this file; they are modelled from the specification's description.       *)
(***************************************************************************)
EXTENDS Integers, Sequences, FiniteSets, TLC

VARIABLES
  columns_to_tensors,  \* the caller's shared mapping: raw field name or column -> tensor
  ops,                 \* per column, the transformation ops built so far on that mapping
  ret                  \* the last call: its arguments, its outcome and what it invoked

vars == <<columns_to_tensors, ops, ret>>

----------------------------------------------------------------------------
(* Bounds of the model *)

MaxCols == 3      \* longest feature_columns list handed to a builder
MaxCheckLen == 3  \* longest feature_columns list handed to check_feature_columns alone
MaxRank == 3      \* longest static shape of a tensor given to infer_real_valued_columns
MaxDim == 4       \* largest static dimension of such a tensor

----------------------------------------------------------------------------
(* The feature columns of the working set (feature_column.py, not in src/) *)

Columns == {"age_bucket", "age_bucket_alt", "unsupported", "age_x_query", "query_hashed"}

RawFields == {"age", "query_word"}

\* The variant of a column.  "unsupported" stands for a column implementation
\* whose insert_transformed_feature writes no entry for itself.
Kind(c) ==
  CASE c = "age_bucket" -> "bucketized"
    [] c = "age_bucket_alt" -> "bucketized"
    [] c = "query_hashed" -> "hashed"
    [] c = "age_x_query" -> "crossed"
    [] c = "unsupported" -> "unsupported"

\* column.key: age_bucket_alt is a distinct column carrying age_bucket's key.
Key(c) ==
  CASE c = "age_bucket" -> "age_bucket"
    [] c = "age_bucket_alt" -> "age_bucket"
    [] c = "unsupported" -> "base"
    [] c = "age_x_query" -> "cross"
    [] c = "query_hashed" -> "query"

\* Position of a key in the ascending order of key strings:
\* "age_bucket" < "base" < "cross" < "query".
KeyRank(k) ==
  CASE k = "age_bucket" -> 1
    [] k = "base" -> 2
    [] k = "cross" -> 3
    [] k = "query" -> 4

\* The raw (string-keyed) fields a column reads.
RawNames(c) ==
  CASE c = "age_bucket" -> {"age"}
    [] c = "age_bucket_alt" -> {"age"}
    [] c = "unsupported" -> {"age"}
    [] c = "query_hashed" -> {"query_word"}
    [] c = "age_x_query" -> {}

RawName(c) == CHOOSE f \in RawNames(c) : TRUE

\* The columns a derived column is composed of, in the order it reads them.
Deps(c) == IF c = "age_x_query" THEN <<"age_bucket", "query_hashed">> ELSE <<>>

\* Width of the dense input-layer slice a column renders.
Width(c) ==
  CASE c = "age_bucket" -> 2
    [] c = "age_bucket_alt" -> 3
    [] c = "unsupported" -> 1
    [] c = "age_x_query" -> 1
    [] c = "query_hashed" -> 2

\* Weight a column applies per output in its weighted-sum contribution.
Coef(c) ==
  CASE c = "age_bucket" -> 1
    [] c = "age_bucket_alt" -> 2
    [] c = "unsupported" -> 3
    [] c = "age_x_query" -> 5
    [] c = "query_hashed" -> 7

----------------------------------------------------------------------------
(* Tensors and the mapping *)

Range(s) == {s[i] : i \in DOMAIN s}

NoTensor == [op |-> "none", of |-> "none", gen |-> 0, inputs |-> <<>>]

\* A raw input tensor, as parsed from the examples.
RawTensor(f) == [op |-> "raw", of |-> f, gen |-> 0, inputs |-> <<>>]

\* A column already transformed by the input pipeline before the call.
InflowTensor(c) == [op |-> "inflow", of |-> c, gen |-> 0, inputs |-> <<>>]

Put(m, k, v) == [x \in DOMAIN m \cup {k} |-> IF x = k THEN v ELSE m[x]]

RawMapping(fields) == [f \in fields |-> RawTensor(f)]

NoError == [kind |-> "none", what |-> "none"]

\* The threaded state of one call: the mapping, the ops built on it, the
\* insert_transformed_feature invocations (ins), the transform calls made by
\* the caller's loop (xf) and the variables created (vs).
Frame(m, o) == [m |-> m, ops |-> o, ins |-> <<>>, xf |-> <<>>, vs |-> <<>>]

----------------------------------------------------------------------------
(* FeatureColumn.insert_transformed_feature *)

\* The column writes its own entry: a new op over the given input tensors.
WriteEntry(st, c, inputs) ==
  [st EXCEPT !.m = Put(@, c, [op |-> Kind(c), of |-> c,
                              gen |-> st.ops[c] + 1, inputs |-> inputs]),
             !.ops[c] = @ + 1]

RECURSIVE insert_transformed_feature(_, _)
RECURSIVE InsertDeps(_, _)

\* A derived column resolves each component that the mapping does not hold yet.
InsertDeps(ds, st) ==
  IF ds = <<>> THEN st
  ELSE InsertDeps(Tail(ds),
                  IF Head(ds) \in DOMAIN st.m THEN st
                  ELSE insert_transformed_feature(Head(ds), st))

insert_transformed_feature(c, st) ==
  LET s0 == [st EXCEPT !.ins = Append(@, c)] IN
  CASE Kind(c) = "unsupported" -> s0
    [] Kind(c) \in {"bucketized", "hashed"} ->
         WriteEntry(s0, c, <<s0.m[RawName(c)]>>)
    [] Kind(c) = "crossed" ->
         LET s1 == InsertDeps(Deps(c), s0) IN
         WriteEntry(s1, c, [i \in 1..Len(Deps(c)) |-> s1.m[Deps(c)[i]]])

----------------------------------------------------------------------------
(* _Transformer.transform *)

Outcome(st, status, error, value, hit) ==
  [st |-> st, status |-> status, error |-> error, value |-> value, hit |-> hit]

\* A transform that never consults the mapping before delegating.
transform_recompute(c, st) ==
  LET s1 == insert_transformed_feature(c, st) IN
  IF c \notin DOMAIN s1.m
  THEN Outcome(s1, "ValueError", [kind |-> "unsupported_column", what |-> c], NoTensor, FALSE)
  ELSE Outcome(s1, "ok", NoError, s1.m[c], FALSE)

\* A transform that omits the membership test after delegating.
transform_unchecked(c, st) ==
  IF c \in DOMAIN st.m
  THEN Outcome(st, "ok", NoError, st.m[c], TRUE)
  ELSE LET s1 == insert_transformed_feature(c, st) IN
       Outcome(s1, "ok", NoError,
               IF c \in DOMAIN s1.m THEN s1.m[c] ELSE NoTensor, FALSE)

transform(c, st) ==
  IF c \in DOMAIN st.m
  THEN Outcome(st, "ok", NoError, st.m[c], TRUE)
  ELSE LET s1 == insert_transformed_feature(c, st) IN
       IF c \notin DOMAIN s1.m
       THEN Outcome(s1, "ValueError", [kind |-> "unsupported_column", what |-> c], NoTensor, FALSE)
       ELSE Outcome(s1, "ok", NoError, s1.m[c], FALSE)

----------------------------------------------------------------------------
(* check_feature_columns *)

Raise(kind, what) == [kind |-> kind, what |-> what]

RECURSIVE CheckLoop(_, _, _)
\* The loop over feature_columns in the caller's order; `at` is the position
\* of the column the error is raised on (0 when none is).
CheckLoop(fcs, i, seen_keys) ==
  IF i > Len(fcs) THEN [status |-> "ok", error |-> NoError, at |-> 0]
  ELSE IF Key(fcs[i]) \in seen_keys
  THEN [status |-> "ValueError", error |-> Raise("duplicate_key", Key(fcs[i])), at |-> i]
  ELSE CheckLoop(fcs, i + 1, seen_keys \cup {Key(fcs[i])})

RECURSIVE CheckLoopNoAdd(_, _, _)
\* The loop with seen_keys.add left out.
CheckLoopNoAdd(fcs, i, seen_keys) ==
  IF i > Len(fcs) THEN [status |-> "ok", error |-> NoError, at |-> 0]
  ELSE IF Key(fcs[i]) \in seen_keys
  THEN [status |-> "ValueError", error |-> Raise("duplicate_key", Key(fcs[i])), at |-> i]
  ELSE CheckLoopNoAdd(fcs, i + 1, seen_keys)

check_feature_columns_no_add(fcs) == CheckLoopNoAdd(fcs, 1, {})

check_feature_columns(fcs) == CheckLoop(fcs, 1, {})

----------------------------------------------------------------------------
(* sorted(set(feature_columns), key=lambda x: x.key) *)

RECURSIVE SortedByKey(_)
SortedByKey(S) ==
  IF S = {} THEN <<>>
  ELSE LET c == CHOOSE x \in S : \A y \in S : KeyRank(Key(x)) <= KeyRank(Key(y))
       IN <<c>> \o SortedByKey(S \ {c})

\* The columns in the order the caller listed them.
caller_order(fcs) == fcs

sorted_columns(fcs) == SortedByKey(Range(fcs))

----------------------------------------------------------------------------
(* FeatureColumn.to_dnn_input_layer, array_ops.concat *)

\* The dense slice of a column: Width(c) units computed from its tensor.
to_dnn_input_layer(c, t) == [i \in 1..Width(c) |-> [col |-> c, unit |-> i, from |-> t]]

RECURSIVE concat(_)
concat(slices) == IF slices = <<>> THEN <<>> ELSE Head(slices) \o concat(Tail(slices))

----------------------------------------------------------------------------
(* input_from_feature_columns *)

Failed(st, error) == Outcome(st, "ValueError", error, NoTensor, FALSE)

RECURSIVE InputLayerLoopDirect(_, _, _)
\* The loop calling the column's insert_transformed_feature itself, past the Transformer.
InputLayerLoopDirect(cols, st, output_tensors) ==
  IF cols = <<>> THEN Outcome(st, "ok", NoError, concat(output_tensors), FALSE)
  ELSE LET column == Head(cols)
           s1 == insert_transformed_feature(column, [st EXCEPT !.xf = Append(@, column)])
       IN IF column \notin DOMAIN s1.m
          THEN Failed(s1, Raise("unsupported_column", column))
          ELSE InputLayerLoopDirect(Tail(cols), s1,
                 Append(output_tensors, to_dnn_input_layer(column, s1.m[column])))

RECURSIVE InputLayerLoop(_, _, _)
\* The loop over the sorted columns: transform, then render the slice.
InputLayerLoop(cols, st, output_tensors) ==
  IF cols = <<>> THEN Outcome(st, "ok", NoError, concat(output_tensors), FALSE)
  ELSE LET column == Head(cols)
           r == transform(column, [st EXCEPT !.xf = Append(@, column)])
       IN IF r.status # "ok" THEN Failed(r.st, r.error)
          ELSE InputLayerLoop(Tail(cols), r.st,
                              Append(output_tensors, to_dnn_input_layer(column, r.value)))

\* The builder with the duplicate-key validation moved after the loop.
input_from_feature_columns_late_check(st, fcs) ==
  LET r == InputLayerLoop(sorted_columns(fcs), st, <<>>)
      chk == check_feature_columns(fcs)
  IN IF r.status = "ok" /\ chk.status # "ok" THEN Failed(r.st, chk.error) ELSE r

input_from_feature_columns(st, fcs) ==
  LET chk == check_feature_columns(fcs) IN
  IF chk.status # "ok" THEN Failed(st, chk.error)
  ELSE InputLayerLoop(sorted_columns(fcs), st, <<>>)

----------------------------------------------------------------------------
(* FeatureColumn.to_weighted_sum, math_ops.add_n, nn_ops.bias_add *)

Variable(name, n) == [name |-> name, shape |-> n]

\* A column's contribution to each of the num_outputs outputs, and its weight.
to_weighted_sum(c, t, num_outputs) ==
  [predictions |-> [j \in 1..num_outputs |-> Coef(c) * j + Len(t.inputs)],
   variable |-> Variable(c, num_outputs)]

zeros(n) == [j \in 1..n |-> 0]

RECURSIVE add_n(_)
\* Elementwise sum of a non-empty list of equally long vectors.
add_n(ts) ==
  IF Len(ts) = 1 THEN ts[1]
  ELSE LET rest == add_n(Tail(ts)) IN [j \in DOMAIN ts[1] |-> ts[1][j] + rest[j]]

bias_add(value, bias) == [j \in DOMAIN value |-> value[j] + bias[j]]

----------------------------------------------------------------------------
(* weighted_sum_from_feature_columns *)

RECURSIVE WeightedSumLoop(_, _, _, _, _)
WeightedSumLoop(cols, st, num_outputs, output_tensors, column_to_variable) ==
  IF cols = <<>>
  THEN LET predictions_no_bias == add_n(output_tensors)
           bias == Variable("bias_weight", num_outputs)
       IN Outcome([st EXCEPT !.vs = Append(@, bias)], "ok", NoError,
                  [predictions |-> bias_add(predictions_no_bias, zeros(num_outputs)),
                   column_to_variable |-> column_to_variable,
                   bias |-> bias], FALSE)
  ELSE LET column == Head(cols)
           r == transform(column, [st EXCEPT !.xf = Append(@, column)])
       IN IF r.status # "ok" THEN Failed(r.st, r.error)
          ELSE LET w == to_weighted_sum(column, r.value, num_outputs) IN
               WeightedSumLoop(Tail(cols), [r.st EXCEPT !.vs = Append(@, w.variable)],
                               num_outputs, Append(output_tensors, w.predictions),
                               Put(column_to_variable, column, w.variable))

EmptyDict == [x \in {} |-> NoTensor]

\* The builder that drops the first sorted column from the sum.
weighted_sum_skip_first(st, fcs, num_outputs) ==
  LET chk == check_feature_columns(fcs)
      cols == sorted_columns(fcs)
  IN IF chk.status # "ok" THEN Failed(st, chk.error)
     ELSE IF Len(cols) = 1 THEN WeightedSumLoop(cols, st, num_outputs, <<>>, EmptyDict)
     ELSE WeightedSumLoop(Tail(cols), st, num_outputs, <<>>, EmptyDict)

weighted_sum_from_feature_columns(st, fcs, num_outputs) ==
  LET chk == check_feature_columns(fcs) IN
  IF chk.status # "ok" THEN Failed(st, chk.error)
  ELSE WeightedSumLoop(sorted_columns(fcs), st, num_outputs, <<>>, EmptyDict)

----------------------------------------------------------------------------
(* fc.create_feature_spec_for_parsing, parsing_ops.parse_example *)

RECURSIVE LeafRawNames(_)
\* The raw fields a column needs parsed: its own and its components'.
LeafRawNames(c) == RawNames(c) \cup UNION {LeafRawNames(d) : d \in Range(Deps(c))}

create_feature_spec_for_parsing(fcs) == UNION {LeafRawNames(c) : c \in Range(fcs)}

parse_example(features) == RawMapping(features)

----------------------------------------------------------------------------
(* parse_feature_columns_from_examples *)

RECURSIVE ParseLoop(_, _)
ParseLoop(cols, st) ==
  IF cols = <<>> THEN Outcome(st, "ok", NoError, st.m, FALSE)
  ELSE LET r == transform(Head(cols), [st EXCEPT !.xf = Append(@, Head(cols))])
       IN IF r.status # "ok" THEN Failed(r.st, r.error) ELSE ParseLoop(Tail(cols), r.st)

NoOps == [c \in Columns |-> 0]

\* The adapter returning the parsed mapping without resolving the columns.
parse_feature_columns_lazy(fcs) ==
  LET chk == check_feature_columns(fcs)
      st == Frame(parse_example(create_feature_spec_for_parsing(fcs)), NoOps)
  IN IF chk.status # "ok" THEN Failed(Frame(EmptyDict, NoOps), chk.error)
     ELSE Outcome(st, "ok", NoError, st.m, FALSE)

parse_feature_columns_from_examples(fcs) ==
  LET chk == check_feature_columns(fcs) IN
  IF chk.status # "ok" THEN Failed(Frame(EmptyDict, NoOps), chk.error)
  ELSE ParseLoop(sorted_columns(fcs),
                 Frame(parse_example(create_feature_spec_for_parsing(fcs)), NoOps))

----------------------------------------------------------------------------
(* infer_real_valued_columns *)

DTypes == {"int32", "float32", "string"}

is_integer(dtype) == dtype = "int32"

is_floating(dtype) == dtype = "float32"

NoColumn == [name |-> "none", dimension |-> 0, dtype |-> "none"]

real_valued_column(name, dimension, dtype) ==
  [name |-> name, dimension |-> dimension, dtype |-> dtype]

RECURSIVE DimensionLoop(_, _, _)
\* for i in range(1, len(shape)): dimension *= shape[i]   (shape[i] is shape[i + 1] here)
DimensionLoop(shape, i, dimension) ==
  IF i >= Len(shape) THEN dimension
  ELSE DimensionLoop(shape, i + 1, dimension * shape[i + 1])

\* The loop started at range(0, ...): the batch axis is multiplied in too.
infer_with_batch_axis(name, tensor) ==
  IF tensor.sparse
  THEN [status |-> "ValueError", error |-> Raise("sparse_tensor", name), column |-> NoColumn]
  ELSE IF ~(is_integer(tensor.dtype) \/ is_floating(tensor.dtype))
  THEN [status |-> "ValueError", error |-> Raise("unsupported_dtype", name), column |-> NoColumn]
  ELSE [status |-> "ok", error |-> NoError,
        column |-> real_valued_column(name, DimensionLoop(tensor.shape, 0, 1), tensor.dtype)]

infer_real_valued_column_for_tensor(name, tensor) ==
  IF tensor.sparse
  THEN [status |-> "ValueError", error |-> Raise("sparse_tensor", name), column |-> NoColumn]
  ELSE IF ~(is_integer(tensor.dtype) \/ is_floating(tensor.dtype))
  THEN [status |-> "ValueError", error |-> Raise("unsupported_dtype", name), column |-> NoColumn]
  ELSE [status |-> "ok", error |-> NoError,
        column |-> real_valued_column(name, DimensionLoop(tensor.shape, 1, 1), tensor.dtype)]

RECURSIVE InferLoop(_, _)
\* for key, value in features.items(): the first failing tensor ends the call.
InferLoop(items, feature_columns) ==
  IF items = <<>> THEN [status |-> "ok", error |-> NoError, value |-> feature_columns]
  ELSE LET r == infer_real_valued_column_for_tensor(Head(items).name, Head(items).tensor)
       IN IF r.status # "ok" THEN [status |-> r.status, error |-> r.error, value |-> <<>>]
          ELSE InferLoop(Tail(items), Append(feature_columns, r.column))

\* features is [is_dict, items]: a bare tensor is one item under the name "".
infer_real_valued_columns(features) ==
  IF ~features.is_dict
  THEN LET r == infer_real_valued_column_for_tensor("", features.items[1].tensor)
       IN [status |-> r.status, error |-> r.error,
           value |-> IF r.status = "ok" THEN <<r.column>> ELSE <<>>]
  ELSE InferLoop(features.items, <<>>)

----------------------------------------------------------------------------
(* Inputs *)

\* The feature_columns lists of 1..n columns, in any order, repeats included.
ColumnLists(n) == UNION {[1..k -> Columns] : k \in 1..n}

NumOutputs == {1, 2}

\* Columns the input pipeline may have transformed before the first call.
PreTransformable == {"age_bucket", "query_hashed"}

Shapes == UNION {[1..k -> 1..MaxDim] : k \in 0..MaxRank}

\* One shape stands for all shapes of a sparse tensor: the code never reads it.
InferTensors ==
  {[sparse |-> TRUE, dtype |-> d, shape |-> <<MaxDim, MaxDim>>] : d \in DTypes}
  \cup {[sparse |-> FALSE, dtype |-> d, shape |-> s] : d \in DTypes, s \in Shapes}

\* The tensors of rank at most one.
FlatTensors == {t \in InferTensors : t.sparse \/ Len(t.shape) <= 1}

FeatureNames == {"x", "y"}

\* features as a bare tensor, and as a dict with the given items in iteration order.
BareTensor(t) == [is_dict |-> FALSE, items |-> <<[name |-> "", tensor |-> t]>>]

Dict(items) == [is_dict |-> TRUE, items |-> items]

Item(n, t) == [name |-> n, tensor |-> t]

OtherName(n) == CHOOSE o \in FeatureNames : o # n

----------------------------------------------------------------------------
(* The state machine *)

NoCall ==
  [op |-> "none", arg |-> <<>>, num_outputs |-> 0, status |-> "none", error |-> NoError,
   value |-> NoTensor, hit |-> FALSE, ins |-> <<>>, xf |-> <<>>, vs |-> <<>>]

\* The record of a finished call, from its outcome r.
Ret(op, arg, n, r) ==
  [op |-> op, arg |-> arg, num_outputs |-> n, status |-> r.status, error |-> r.error,
   value |-> r.value, hit |-> r.hit, ins |-> r.st.ins, xf |-> r.st.xf, vs |-> r.st.vs]

Init ==
  /\ \E pre \in SUBSET PreTransformable :
       columns_to_tensors =
         [k \in RawFields \cup pre |-> IF k \in RawFields THEN RawTensor(k) ELSE InflowTensor(k)]
  /\ ops = NoOps
  /\ ret = NoCall

\* The caller is single-threaded: it issues a call once the previous one has
\* returned and its result has been taken.
Idle == ret.op = "none"

Transform(c) ==
  LET r == transform(c, Frame(columns_to_tensors, ops)) IN
  /\ columns_to_tensors' = r.st.m
  /\ ops' = r.st.ops
  /\ ret' = Ret("transform", <<c>>, 0, r)

InputFromFeatureColumns(fcs) ==
  LET r == input_from_feature_columns(Frame(columns_to_tensors, ops), fcs) IN
  /\ columns_to_tensors' = r.st.m
  /\ ops' = r.st.ops
  /\ ret' = Ret("input_from_feature_columns", fcs, 0, r)

WeightedSumFromFeatureColumns(fcs, num_outputs) ==
  LET r == weighted_sum_from_feature_columns(Frame(columns_to_tensors, ops), fcs, num_outputs) IN
  /\ columns_to_tensors' = r.st.m
  /\ ops' = r.st.ops
  /\ ret' = Ret("weighted_sum_from_feature_columns", fcs, num_outputs, r)

\* The adapter builds and returns a mapping of its own; the caller's is untouched.
ParseFeatureColumnsFromExamples(fcs) ==
  LET r == parse_feature_columns_from_examples(fcs) IN
  /\ ret' = Ret("parse_feature_columns_from_examples", fcs, 0, r)
  /\ UNCHANGED <<columns_to_tensors, ops>>

CheckFeatureColumns(fcs) ==
  LET chk == check_feature_columns(fcs) IN
  /\ ret' = [NoCall EXCEPT !.op = "check_feature_columns", !.arg = fcs,
                           !.status = chk.status, !.error = chk.error, !.value = chk.at]
  /\ UNCHANGED <<columns_to_tensors, ops>>

InferRealValuedColumns(features) ==
  LET r == infer_real_valued_columns(features) IN
  /\ ret' = [NoCall EXCEPT !.op = "infer_real_valued_columns", !.arg = features,
                           !.status = r.status, !.error = r.error, !.value = r.value]
  /\ UNCHANGED <<columns_to_tensors, ops>>

\* The caller takes the result of the finished call.
Return ==
  /\ ~Idle
  /\ ret' = NoCall
  /\ UNCHANGED <<columns_to_tensors, ops>>

Next ==
  \/ Idle /\ \E c \in Columns : Transform(c)
  \/ Idle /\ \E fcs \in ColumnLists(MaxCols) : InputFromFeatureColumns(fcs)
  \/ Idle /\ \E fcs \in ColumnLists(MaxCols), n \in NumOutputs : WeightedSumFromFeatureColumns(fcs, n)
  \/ Idle /\ \E fcs \in ColumnLists(MaxCols) : ParseFeatureColumnsFromExamples(fcs)
  \/ Return

Spec == Init /\ [][Next]_vars

\* check_feature_columns on its own, from the empty list up to MaxCheckLen columns.
NextCheck ==
  \/ Idle /\ \E fcs \in {<<>>} \cup ColumnLists(MaxCheckLen) : CheckFeatureColumns(fcs)
  \/ Return

SpecCheck == Init /\ [][NextCheck]_vars

\* infer_real_valued_columns on its own: a bare tensor, or a dict of up to two
\* named tensors (one of any shape beside one of rank at most one), in either
\* iteration order.
NextInfer ==
  \/ Idle /\ \E t \in InferTensors : InferRealValuedColumns(BareTensor(t))
  \/ Idle /\ InferRealValuedColumns(Dict(<<>>))
  \/ Idle /\ \E n \in FeatureNames, t \in InferTensors :
               InferRealValuedColumns(Dict(<<Item(n, t)>>))
  \/ Idle /\ \E n \in FeatureNames, t \in InferTensors, u \in FlatTensors :
               InferRealValuedColumns(Dict(<<Item(n, t), Item(OtherName(n), u)>>))
  \/ Idle /\ \E n \in FeatureNames, t \in InferTensors, u \in FlatTensors :
               InferRealValuedColumns(Dict(<<Item(n, u), Item(OtherName(n), t)>>))
  \/ Return

SpecInfer == Init /\ [][NextInfer]_vars

----------------------------------------------------------------------------
(* Vocabulary of the properties *)

Builders ==
  {"input_from_feature_columns", "weighted_sum_from_feature_columns",
   "parse_feature_columns_from_examples"}

UniqueKeys(fcs) == \A i, j \in DOMAIN fcs : i # j => Key(fcs[i]) # Key(fcs[j])

Count(x, q) == Cardinality({i \in DOMAIN q : q[i] = x})

\* The one strictly key-ascending arrangement of a set of columns with unique keys.
Ascending(S) ==
  CHOOSE q \in [1..Cardinality(S) -> S] :
    /\ Range(q) = S
    /\ \A i, j \in DOMAIN q : i < j => KeyRank(Key(q[i])) < KeyRank(Key(q[j]))

IsPrefix(p, q) == Len(p) <= Len(q) /\ \A i \in DOMAIN p : p[i] = q[i]

\* The rearrangements of a list.
PermsOf(fcs) ==
  {q \in [DOMAIN fcs -> Range(fcs)] : \A x \in Range(fcs) : Count(x, q) = Count(x, fcs)}

RECURSIVE SumWidth(_)
SumWidth(S) ==
  IF S = {} THEN 0 ELSE LET c == CHOOSE x \in S : TRUE IN Width(c) + SumWidth(S \ {c})

RECURSIVE SumContribution(_, _, _, _)
\* Output j of the contributions of the columns S, read off the mapping m.
SumContribution(S, m, n, j) ==
  IF S = {} THEN 0
  ELSE LET c == CHOOSE x \in S : TRUE
       IN to_weighted_sum(c, m[c], n).predictions[j] + SumContribution(S \ {c}, m, n, j)

RECURSIVE ShapeProduct(_)
\* Product of the dimensions after the first, taken from the last one down.
ShapeProduct(shape) ==
  IF Len(shape) <= 1 THEN 1
  ELSE shape[Len(shape)] * ShapeProduct(SubSeq(shape, 1, Len(shape) - 1))

----------------------------------------------------------------------------
(* The claims *)

\* C1: on one shared mapping, whatever the transform calls made (directly,
\* repeatedly, or through the cross that depends on a column), the op of each
\* column is built exactly once (the input pipeline's own transformation
\* counting as that one), the cross reads the very tensors stored for its
\* components, and a transform call returns the tensor stored for the column.
C1_ComputedOnce ==
  /\ \A c \in Columns :
       IF c \in DOMAIN columns_to_tensors
       THEN \/ columns_to_tensors[c] = InflowTensor(c) /\ ops[c] = 0
            \/ /\ ops[c] = 1
               /\ columns_to_tensors[c].op = Kind(c)
               /\ columns_to_tensors[c].of = c
               /\ columns_to_tensors[c].gen = 1
       ELSE ops[c] = 0
  /\ \A c \in Columns :
       (c \in DOMAIN columns_to_tensors /\ ops[c] = 1) =>
         columns_to_tensors[c].inputs =
           IF Kind(c) = "crossed"
           THEN [i \in 1..Len(Deps(c)) |-> columns_to_tensors[Deps(c)[i]]]
           ELSE <<columns_to_tensors[RawName(c)]>>
  /\ (ret.op = "transform" /\ ret.status = "ok") =>
       /\ ret.arg[1] \in DOMAIN columns_to_tensors
       /\ ret.value = columns_to_tensors[ret.arg[1]]
       /\ ret.hit => ret.ins = <<>>

\* A column computed once through the cross is requested again directly.
C1_Witness ==
  /\ ret.op = "transform" /\ ret.arg = <<"age_bucket">> /\ ret.hit
  /\ ops["age_bucket"] = 1 /\ ops["age_x_query"] = 1 /\ ops["query_hashed"] = 1

\* C2 as stated: a transform call for a column that the mapping holds, or whose
\* raw field the mapping holds, returns the existing entry without invoking
\* insert_transformed_feature and leaves the mapping unchanged.
C2_Original ==
  [][\A c \in Columns :
       (/\ ret'.op = "transform" /\ ret'.arg = <<c>>
        /\ (c \in DOMAIN columns_to_tensors
            \/ RawNames(c) \cap DOMAIN columns_to_tensors # {})) =>
         /\ ret'.status = "ok"
         /\ ret'.value \in {columns_to_tensors[k] :
                              k \in ({c} \cup RawNames(c)) \cap DOMAIN columns_to_tensors}
         /\ ret'.ins = <<>>
         /\ columns_to_tensors' = columns_to_tensors]_vars

\* C2 amended: a transform call for a column that the mapping holds under the
\* column itself returns that entry without invoking insert_transformed_feature
\* and leaves the mapping and the ops built unchanged.
C2_HitReturnsEntry ==
  [][\A c \in Columns :
       (/\ ret'.op = "transform" /\ ret'.arg = <<c>>
        /\ c \in DOMAIN columns_to_tensors) =>
         /\ ret'.status = "ok"
         /\ ret'.value = columns_to_tensors[c]
         /\ ret'.ins = <<>>
         /\ columns_to_tensors' = columns_to_tensors
         /\ ops' = ops]_vars

\* A transform call answered from the mapping, for a column the pipeline supplied.
C2_Witness ==
  /\ ret.op = "transform" /\ ret.hit /\ ret.ins = <<>>
  /\ ret.value = InflowTensor("query_hashed")

\* C3: a transform call for a column absent from the mapping invokes that
\* column's insert_transformed_feature exactly once; if the column is still
\* absent it fails with the unsupported-column ValueError and returns no
\* tensor, otherwise it returns the entry now stored under the column.
C3_MissDelegatesOnce ==
  [][\A c \in Columns :
       (/\ ret'.op = "transform" /\ ret'.arg = <<c>>
        /\ c \notin DOMAIN columns_to_tensors) =>
         /\ Count(c, ret'.ins) = 1
         /\ ret'.ins[1] = c
         /\ ~ret'.hit
         /\ IF c \notin DOMAIN columns_to_tensors'
            THEN /\ ret'.status = "ValueError"
                 /\ ret'.error = Raise("unsupported_column", c)
                 /\ ret'.value = NoTensor
            ELSE /\ ret'.status = "ok"
                 /\ ret'.error = NoError
                 /\ ret'.value = columns_to_tensors'[c]]_vars

\* The column that writes no entry was requested and the call failed.
C3_Witness ==
  /\ ret.op = "transform" /\ ret.arg = <<"unsupported">>
  /\ ret.status = "ValueError" /\ ret.ins = <<"unsupported">>

\* C4: over any step of any call, failing calls included, every key of the
\* shared mapping stays and keeps its value.
C4_MappingOnlyGrows ==
  [][\A k \in DOMAIN columns_to_tensors :
       /\ k \in DOMAIN columns_to_tensors'
       /\ columns_to_tensors'[k] = columns_to_tensors[k]]_vars

\* A builder call failed on the unsupported column after it had resolved another.
C4_Witness ==
  /\ ret.op \in {"input_from_feature_columns", "weighted_sum_from_feature_columns"}
  /\ ret.status = "ValueError" /\ ret.error = Raise("unsupported_column", "unsupported")
  /\ ret.ins = <<"age_bucket", "unsupported">>
  /\ ops["age_bucket"] = 1

\* C5: check_feature_columns succeeds exactly when the keys are pairwise
\* distinct; otherwise it raises the duplicate-key error on the first column,
\* in the caller's order, whose key an earlier column has, naming that key.
C5_DuplicateKey ==
  ret.op = "check_feature_columns" =>
    LET fcs == ret.arg
        repeats == {j \in DOMAIN fcs : \E i \in 1..(j - 1) : Key(fcs[i]) = Key(fcs[j])}
    IN /\ (ret.status = "ok") <=> UniqueKeys(fcs)
       /\ (ret.status # "ok") <=> (repeats # {})
       /\ repeats # {} =>
            LET first == CHOOSE j \in repeats : \A k \in repeats : j <= k IN
            /\ ret.status = "ValueError"
            /\ ret.error = Raise("duplicate_key", Key(fcs[first]))
            /\ ret.value = first
       /\ repeats = {} => ret.error = NoError

\* Two distinct columns with one key, the second of them listed last.
C5_Witness ==
  /\ ret.op = "check_feature_columns"
  /\ ret.arg = <<"age_bucket_alt", "query_hashed", "age_bucket">>
  /\ ret.status = "ValueError" /\ ret.value = 3

\* C6: for feature columns with unique keys, input_from_feature_columns calls
\* transform once per column in ascending key order (up to the column that
\* fails, if one does) and returns the per-column slices concatenated in that
\* order, of total width the sum of the columns' widths; the outcome is the
\* same for every order in which the caller lists the columns.
C6_KeyOrder ==
  [][(ret'.op = "input_from_feature_columns" /\ UniqueKeys(ret'.arg)) =>
       LET fcs == ret'.arg
           asc == Ascending(Range(fcs))
       IN /\ IsPrefix(ret'.xf, asc)
          /\ (ret'.status = "ok") <=> ("unsupported" \notin Range(fcs))
          /\ ret'.status = "ok" =>
               /\ ret'.xf = asc
               /\ ret'.value =
                    concat([i \in DOMAIN asc |->
                              to_dnn_input_layer(asc[i], columns_to_tensors'[asc[i]])])
               /\ Len(ret'.value) = SumWidth(Range(fcs))
          /\ \A p \in PermsOf(fcs) :
               LET r == input_from_feature_columns(Frame(columns_to_tensors, ops), p)
               IN /\ r.status = ret'.status
                  /\ r.value = ret'.value
                  /\ r.st.xf = ret'.xf
                  /\ r.st.m = columns_to_tensors']_vars

\* Three columns listed in descending key order were rendered.
C6_Witness ==
  /\ ret.op = "input_from_feature_columns" /\ ret.status = "ok"
  /\ ret.arg = <<"query_hashed", "age_x_query", "age_bucket">>
  /\ Len(ret.value) = 5

\* C7: for feature columns with unique keys that can all be transformed and
\* num_outputs >= 1, weighted_sum_from_feature_columns returns predictions of
\* width num_outputs equal, output by output, to the sum of the columns'
\* contributions plus the bias, a column-to-variable map with exactly one
\* entry per column, and the bias variable of shape num_outputs.
C7_WeightedSum ==
  ret.op = "weighted_sum_from_feature_columns" =>
    LET S == Range(ret.arg)
        n == ret.num_outputs
    IN /\ (UniqueKeys(ret.arg) /\ "unsupported" \notin S) => ret.status = "ok"
       /\ ret.status = "ok" =>
            /\ DOMAIN ret.value.predictions = 1..n
            /\ \A j \in 1..n :
                 ret.value.predictions[j] =
                   SumContribution(S, columns_to_tensors, n, j) + zeros(ret.value.bias.shape)[j]
            /\ DOMAIN ret.value.column_to_variable = S
            /\ \A c \in S :
                 ret.value.column_to_variable[c] =
                   to_weighted_sum(c, columns_to_tensors[c], n).variable
            /\ ret.value.bias = Variable("bias_weight", n)
            /\ Len(ret.vs) = Cardinality(S) + 1

\* Two outputs summed over three columns.
C7_Witness ==
  /\ ret.op = "weighted_sum_from_feature_columns" /\ ret.status = "ok"
  /\ ret.num_outputs = 2 /\ Cardinality(Range(ret.arg)) = 3
  /\ ret.value.predictions = <<17, 30>>

\* C8: when parse_feature_columns_from_examples returns, the mapping it
\* returns holds every raw parsed field and an entry for every requested
\* column, each column having gone through transform once; with a requested
\* column that cannot be transformed the call fails.
C8_ParseResolvesAll ==
  ret.op = "parse_feature_columns_from_examples" =>
    LET S == Range(ret.arg) IN
    /\ ret.status = "ok" =>
         /\ \A f \in create_feature_spec_for_parsing(ret.arg) :
              f \in DOMAIN ret.value /\ ret.value[f] = RawTensor(f)
         /\ \A c \in S :
              /\ c \in DOMAIN ret.value
              /\ ret.value[c].of = c /\ ret.value[c].op = Kind(c)
              /\ Count(c, ret.xf) = 1
         /\ Len(ret.xf) = Cardinality(S)
    /\ "unsupported" \in S => ret.status = "ValueError"
    /\ (UniqueKeys(ret.arg) /\ "unsupported" \notin S) => ret.status = "ok"

\* The cross and one of its components were parsed and resolved.
C8_Witness ==
  /\ ret.op = "parse_feature_columns_from_examples" /\ ret.status = "ok"
  /\ ret.arg = <<"age_x_query", "age_bucket">>
  /\ DOMAIN ret.value = {"age", "query_word", "age_bucket", "query_hashed", "age_x_query"}

\* C9: infer_real_valued_columns fails exactly when some tensor is sparse or
\* of a dtype neither integer nor floating; otherwise it yields, per tensor, a
\* real-valued column of the tensor's name and dtype whose dimension is the
\* product of the shape's dimensions after the batch axis (1 when none).
C9_InferDimension ==
  ret.op = "infer_real_valued_columns" =>
    LET items == ret.arg.items
        bad == {i \in DOMAIN items :
                  \/ items[i].tensor.sparse
                  \/ items[i].tensor.dtype \notin {"int32", "float32"}}
    IN /\ (ret.status = "ValueError") <=> (bad # {})
       /\ (ret.status = "ok") <=> (bad = {})
       /\ bad # {} => ret.error.kind \in {"sparse_tensor", "unsupported_dtype"}
       /\ bad = {} =>
            /\ Len(ret.value) = Len(items)
            /\ \A i \in DOMAIN items :
                 ret.value[i] = [name |-> items[i].name,
                                 dimension |-> ShapeProduct(items[i].tensor.shape),
                                 dtype |-> items[i].tensor.dtype]

\* A dense float tensor of shape [batch, 3, 4] gave a column of dimension 12.
C9_Witness ==
  /\ ret.op = "infer_real_valued_columns" /\ ret.status = "ok"
  /\ ~ret.arg.is_dict
  /\ ret.arg.items[1].tensor.shape = <<2, 3, 4>>
  /\ ret.value[1].dimension = 12

\* C10: a builder or parser call on feature columns of which two share a key
\* fails with the duplicate-key error before any column is resolved: no
\* transform call, no insert_transformed_feature, no variable, and the
\* caller's mapping and the ops built on it are as before the call.
C10_ValidationFirst ==
  [][(ret'.op \in Builders /\ ~UniqueKeys(ret'.arg)) =>
       /\ ret'.status = "ValueError"
       /\ ret'.error.kind = "duplicate_key"
       /\ \E i, j \in DOMAIN ret'.arg :
            i < j /\ Key(ret'.arg[i]) = Key(ret'.arg[j]) /\ ret'.error.what = Key(ret'.arg[j])
       /\ ret'.xf = <<>>
       /\ ret'.ins = <<>>
       /\ ret'.vs = <<>>
       /\ columns_to_tensors' = columns_to_tensors
       /\ ops' = ops]_vars

\* A builder rejected two distinct columns that carry one key.
C10_Witness ==
  /\ ret.op = "input_from_feature_columns"
  /\ ret.arg = <<"query_hashed", "age_bucket", "age_bucket_alt">>
  /\ ret.error = Raise("duplicate_key", "age_bucket")

====
